---------------------------- MODULE Spec2Model ----------------------------
(***************************************************************************)
(* The temperature monitor of cockpit-temp-plugin (src/src/app.tsx): the   *)
(* log ingestion pipeline (line parser, sort, window, range filter), the   *)
(* status check with its chain of probes, the current-temperature fetch    *)
(* and the polling driver around them.                                     *)
(*                                                                         *)
(* Representation.                                                         *)
(*  - A string is a sequence of one-character strings.                     *)
(*  - A JavaScript value that may be a number, NaN, null or undefined is a *)
(*    record [k, v]; numbers are held in thousandths (45.2 is 45200), so   *)
(*    parseFloat of a decimal with at most three fraction digits and       *)
(*    parseInt(x) / 1000 are exact.                                        *)
(*  - An array of readings, and the text of the log, is run-length         *)
(*    encoded: a sequence of runs [line or r, n] standing for n >= 1 equal *)
(*    consecutive elements.  The segments of data.split('\n') are the runs *)
(*    of the text.  This keeps the 30000-element window of the code        *)
(*    within reach of the model checker.                                   *)
(*  - Instants are counted in ticks, TicksPerSec ticks to the second.      *)
(***************************************************************************)
EXTENDS Integers, Sequences, FiniteSets, TLC

----------------------------------------------------------------------------
(* JavaScript values *)

Num(x) == [k |-> "num", v |-> x]
NaN == [k |-> "nan", v |-> 0]
Null == [k |-> "null", v |-> 0]
Undefined == [k |-> "undefined", v |-> 0]

IsNum(x) == x.k = "num"

(* ToBoolean of a number, null or undefined: 0 and NaN are falsy. *)
Truthy(x) == x.k = "num" /\ x.v # 0

----------------------------------------------------------------------------
(* Strings *)

Digits == {"0", "1", "2", "3", "4", "5", "6", "7", "8", "9"}

DigitVal(c) ==
    CASE c = "0" -> 0 [] c = "1" -> 1 [] c = "2" -> 2 [] c = "3" -> 3
      [] c = "4" -> 4 [] c = "5" -> 5 [] c = "6" -> 6 [] c = "7" -> 7
      [] c = "8" -> 8 [] c = "9" -> 9

WhiteSpace == {" ", "\n", "\t"}

(* First index at or after i that holds no white space. *)
RECURSIVE WsEnd(_, _)
WsEnd(s, i) ==
    IF i <= Len(s) /\ s[i] \in WhiteSpace THEN WsEnd(s, i + 1) ELSE i

(* First index at or after i that holds no decimal digit. *)
RECURSIVE DigitsEnd(_, _)
DigitsEnd(s, i) ==
    IF i <= Len(s) /\ s[i] \in Digits THEN DigitsEnd(s, i + 1) ELSE i

(* The number written by the digits s[i] .. s[j-1]. *)
RECURSIVE NatOf(_, _, _)
NatOf(s, i, j) ==
    IF j <= i THEN 0 ELSE NatOf(s, i, j - 1) * 10 + DigitVal(s[j - 1])

(* The fraction digits s[i] .. s[j-1], in thousandths. *)
FracOf(s, i, j) ==
    (IF i < j THEN DigitVal(s[i]) * 100 ELSE 0)
    + (IF i + 1 < j THEN DigitVal(s[i + 1]) * 10 ELSE 0)
    + (IF i + 2 < j THEN DigitVal(s[i + 2]) ELSE 0)

(* String.prototype.split(sep) for a one-character separator: the segments *)
(* between the separators; a string without separator is one segment.      *)
RECURSIVE SplitFrom(_, _, _, _)
SplitFrom(s, sep, i, cur) ==
    IF i > Len(s) THEN <<cur>>
    ELSE IF s[i] = sep THEN <<cur>> \o SplitFrom(s, sep, i + 1, <<>>)
    ELSE SplitFrom(s, sep, i + 1, Append(cur, s[i]))

Split(s, sep) == SplitFrom(s, sep, 1, <<>>)

StartsWith(s, c) == Len(s) >= 1 /\ s[1] = c

(* parseFloat: white space is skipped, then the longest prefix that is a   *)
(* decimal literal (sign, digits, fraction) is the value; NaN when there   *)
(* is no digit.  Text after the literal is ignored.                        *)
ParseFloat(s) ==
    LET a == WsEnd(s, 1)
        signed == a <= Len(s) /\ s[a] \in {"+", "-"}
        neg == a <= Len(s) /\ s[a] = "-"
        b == IF signed THEN a + 1 ELSE a
        c == DigitsEnd(s, b)
        hasDot == c <= Len(s) /\ s[c] = "."
        d == IF hasDot THEN DigitsEnd(s, c + 1) ELSE c
        nFrac == IF hasDot THEN d - (c + 1) ELSE 0
        mag == NatOf(s, b, c) * 1000 + (IF hasDot THEN FracOf(s, c + 1, d) ELSE 0)
    IN  IF (c - b) + nFrac = 0 THEN NaN
        ELSE Num(IF neg THEN 0 - mag ELSE mag)

(* parseInt: white space is skipped, then sign and digits; NaN when there  *)
(* is no digit.  The value is an integer (not scaled).                     *)
ParseInt(s) ==
    LET a == WsEnd(s, 1)
        signed == a <= Len(s) /\ s[a] \in {"+", "-"}
        neg == a <= Len(s) /\ s[a] = "-"
        b == IF signed THEN a + 1 ELSE a
        c == DigitsEnd(s, b)
    IN  IF c = b THEN NaN
        ELSE Num(IF neg THEN 0 - NatOf(s, b, c) ELSE NatOf(s, b, c))

(* Byte order of the characters the model writes (the C locale). *)
CharCode(c) ==
    CASE c = "\t" -> 9 [] c = "\n" -> 10 [] c = " " -> 32 [] c = "#" -> 35
      [] c = "+" -> 43 [] c = "," -> 44 [] c = "-" -> 45 [] c = "." -> 46
      [] c \in Digits -> 48 + DigitVal(c)
      [] c = ":" -> 58 [] c = "A" -> 65 [] c = "C" -> 67 [] c = "T" -> 84
      [] c = "a" -> 97 [] c = "d" -> 100 [] c = "e" -> 101 [] c = "m" -> 109
      [] c = "p" -> 112 [] c = "r" -> 114 [] c = "t" -> 116 [] c = "x" -> 120

(* s sorts before or with t, byte by byte. *)
RECURSIVE LexLeq(_, _)
LexLeq(s, t) ==
    IF s = <<>> THEN TRUE
    ELSE IF t = <<>> THEN FALSE
    ELSE IF s[1] = t[1] THEN LexLeq(Tail(s), Tail(t))
    ELSE CharCode(s[1]) < CharCode(t[1])

(* sort(1) over the lines of a text. *)
RECURSIVE InsertLine(_, _)
InsertLine(sorted, x) ==
    IF sorted = <<>> THEN <<x>>
    ELSE IF LexLeq(sorted[Len(sorted)].line, x.line) THEN Append(sorted, x)
    ELSE Append(InsertLine(SubSeq(sorted, 1, Len(sorted) - 1), x), sorted[Len(sorted)])

RECURSIVE SortLines(_)
SortLines(text) ==
    IF text = <<>> THEN <<>>
    ELSE InsertLine(SortLines(SubSeq(text, 1, Len(text) - 1)), text[Len(text)])

----------------------------------------------------------------------------
(* Time *)

TicksPerSec == 2

Sec(n) == n * TicksPerSec

(* new Date(timestamp).getTime().  The timestamps of the model are decimal *)
(* numerals counting hours; any other string is an Invalid Date, whose     *)
(* time value is NaN.                                                      *)
GetTime(ts) ==
    IF Len(ts) > 0 /\ DigitsEnd(ts, 1) = Len(ts) + 1
    THEN Num(NatOf(ts, 1, Len(ts) + 1) * Sec(3600))
    ELSE NaN

----------------------------------------------------------------------------
(* Run-length encoded arrays *)

RECURSIVE RunLen(_)
RunLen(rs) == IF rs = <<>> THEN 0 ELSE rs[1].n + RunLen(Tail(rs))

(* Element i (1-based) of the array encoded by rs. *)
RECURSIVE ElemAt(_, _)
ElemAt(rs, i) == IF i <= rs[1].n THEN rs[1].r ELSE ElemAt(Tail(rs), i - rs[1].n)

(* Number of elements of the array equal to x. *)
RECURSIVE CountOf(_, _)
CountOf(rs, x) ==
    IF rs = <<>> THEN 0
    ELSE (IF rs[1].r = x THEN rs[1].n ELSE 0) + CountOf(Tail(rs), x)

Elems(rs) == {rs[i].r : i \in 1..Len(rs)}

----------------------------------------------------------------------------
(* Record parser: app.tsx 176-197 *)

OptFloatZero(field) == IF field # <<>> THEN ParseFloat(field) ELSE Num(0)

(* parts[i] ? parseFloat(parts[i]) : null -- the empty string is falsy. *)
OptFloat(field) == IF field # <<>> THEN ParseFloat(field) ELSE Null

ParseLine(line) ==
    LET parts == Split(line, ",")
    IN  IF Len(parts) = 3
        THEN [timestamp |-> parts[1],
              sensorsTemp |-> OptFloat(parts[2]),
              thermalTemp |-> ParseFloat(parts[3]),
              tmp102Temp |-> Undefined]
        ELSE IF Len(parts) = 4
        THEN [timestamp |-> parts[1],
              sensorsTemp |-> OptFloat(parts[2]),
              thermalTemp |-> ParseFloat(parts[3]),
              tmp102Temp |-> OptFloat(parts[4])]
        ELSE Null

KeepNonEmpty(line) == line # <<>>

(* data.split('\n').filter(line => line && !line.startsWith('#')) *)
KeepLine(line) == line # <<>> /\ ~StartsWith(line, "#")

(* lines.map(parse).filter(reading => reading !== null) *)
ParseLog(data) ==
    LET lines == SelectSeq(data, LAMBDA b : KeepLine(b.line))
        mapped == [i \in 1..Len(lines) |->
                     [r |-> ParseLine(lines[i].line), n |-> lines[i].n]]
    IN  SelectSeq(mapped, LAMBDA m : m.r # Null)

----------------------------------------------------------------------------
(* Sort: app.tsx 199-202 *)

CompareDescending(a, b) ==
    LET ta == GetTime(a.timestamp)
        tb == GetTime(b.timestamp)
    IN  IF IsNum(ta) /\ IsNum(tb) THEN tb.v - ta.v ELSE 0

(* The comparator, new Date(a.timestamp).getTime() - new Date(b...): NaN   *)
(* when either date is invalid, which Array.prototype.sort reads as +0.    *)
Compare(a, b) ==
    LET ta == GetTime(a.timestamp)
        tb == GetTime(b.timestamp)
    IN  IF IsNum(ta) /\ IsNum(tb) THEN ta.v - tb.v ELSE 0

(* ECMAScript's consistent comparator: "equal" and "less" are transitive   *)
(* over the elements being sorted.                                         *)
ConsistentComparator(rs) ==
    \A a, b, c \in Elems(rs) :
       /\ (Compare(a, b) = 0 /\ Compare(b, c) = 0) => Compare(a, c) = 0
       /\ (Compare(a, b) < 0 /\ Compare(b, c) = 0) => Compare(a, c) < 0
       /\ (Compare(a, b) = 0 /\ Compare(b, c) < 0) => Compare(a, c) < 0
       /\ (Compare(a, b) < 0 /\ Compare(b, c) < 0) => Compare(a, c) < 0

RECURSIVE InsertRunUnstable(_, _)
InsertRunUnstable(sorted, x) ==
    IF sorted = <<>> THEN <<x>>
    ELSE IF Compare(sorted[Len(sorted)].r, x.r) < 0 THEN Append(sorted, x)
    ELSE Append(InsertRunUnstable(SubSeq(sorted, 1, Len(sorted) - 1), x),
                sorted[Len(sorted)])

(* x inserted behind every element that does not compare greater. *)
RECURSIVE InsertRun(_, _)
InsertRun(sorted, x) ==
    IF sorted = <<>> THEN <<x>>
    ELSE IF Compare(sorted[Len(sorted)].r, x.r) <= 0 THEN Append(sorted, x)
    ELSE Append(InsertRun(SubSeq(sorted, 1, Len(sorted) - 1), x), sorted[Len(sorted)])

RECURSIVE StableSort(_)
StableSort(rs) ==
    IF rs = <<>> THEN <<>>
    ELSE InsertRun(StableSort(SubSeq(rs, 1, Len(rs) - 1)), rs[Len(rs)])

Perms(rs) ==
    LET n == Len(rs)
        bij == {p \in [1..n -> 1..n] : \A i, j \in 1..n : p[i] = p[j] => i = j}
    IN  {[i \in 1..n |-> rs[p[i]]] : p \in bij}

(* The results allReadings.sort(comparator) may have: the stable sort      *)
(* (ES2019) under a consistent comparator, an implementation-defined order *)
(* of the same elements otherwise.  Of those orders the model takes the    *)
(* ones that keep each run together.                                       *)
SortOutcomes(rs) ==
    IF ConsistentComparator(rs) THEN {StableSort(rs)} ELSE Perms(rs)

----------------------------------------------------------------------------
(* Window: app.tsx 204-205 *)

WindowSize == 30000

(* The array without its first k elements. *)
RECURSIVE DropFirst(_, _)
DropFirst(rs, k) ==
    IF k <= 0 \/ rs = <<>> THEN rs
    ELSE IF rs[1].n > k THEN <<[rs[1] EXCEPT !.n = rs[1].n - k]>> \o Tail(rs)
    ELSE DropFirst(Tail(rs), k - rs[1].n)

SliceLastShort(rs, count) ==
    LET len == RunLen(rs)
        start == IF len - count + 1 > 0 THEN len - count + 1 ELSE 0
    IN  DropFirst(rs, start)

(* array.slice(-count): from index max(length - count, 0) to the end. *)
SliceLast(rs, count) ==
    LET len == RunLen(rs)
        start == IF len - count > 0 THEN len - count ELSE 0
    IN  DropFirst(rs, start)

LastOfFirst(rs) == IF rs = <<>> THEN Undefined ELSE rs[1].r

(* array[array.length - 1]: undefined for the empty array. *)
LastOf(rs) == IF rs = <<>> THEN Undefined ELSE rs[Len(rs)].r

----------------------------------------------------------------------------
(* State *)

VARIABLES
    scriptFile,     \* /usr/local/bin/temp_logger.sh exists
    cronEntries,    \* number of temp_logger.sh lines in /etc/crontab
    logFile,        \* /var/log/temperature/temperature.log: [exists, data]
    archives,       \* the lines of the temperature.log.*.gz files, decompressed
    sensorsOut,     \* what `sensors` prints
    thermalOut,     \* the content of /sys/class/thermal/thermal_zone0/temp
    mounted,       \* the effect of app.tsx 411-430 has run
    loading,        \* useState(false), app.tsx 73
    loggingStatus,  \* useState<LoggingStatus>, app.tsx 66-71
    currentTemp,    \* useState<CurrentTemperature>, app.tsx 72
    timeRange,      \* useState('1h'), app.tsx 75
    checks,         \* the calls of checkLoggingStatus, in the order they started
    fetches,        \* the calls of fetchCurrentTemperature, in the order they started
    install,        \* the position of installLogging
    now,            \* the clock, in ticks
    chart,          \* the readings the graph tab last rendered
    tempCard,       \* the current-temperature card as last rendered
    adsbPhase,      \* ADS-B monitor: "created", "mounted" or "unmounted"
    adsbInterval,   \* ADS-B monitor: the interval of its effect is set
    adsbLoading,    \* ADS-B monitor: useState(false), part_002 81
    stats,          \* ADS-B monitor: useState<ADSBStats | null>(null), part_002 71
    receiverInfo,   \* ADS-B monitor: useState<ReceiverInfo>, part_002 72-79
    adsbFetches     \* the calls of fetchADSBStats, in the order they started

vars == <<scriptFile, cronEntries, logFile, archives, sensorsOut, thermalOut,
          mounted, loading, loggingStatus, currentTemp, timeRange, checks,
          fetches, install, now, chart, tempCard, adsbPhase, adsbInterval,
          adsbLoading, stats, receiverInfo, adsbFetches>>

(* The ADS-B monitor is a component of its own. *)
adsb == <<adsbPhase, adsbInterval, adsbLoading, stats, receiverInfo, adsbFetches>>

(* The state of the temperature monitor. *)
temp == <<scriptFile, cronEntries, logFile, archives, sensorsOut, thermalOut,
          mounted, loading, loggingStatus, currentTemp, timeRange, checks,
          fetches, install, now, chart, tempCard>>

host == <<scriptFile, cronEntries, logFile, archives, sensorsOut, thermalOut>>

----------------------------------------------------------------------------
(* Status records: app.tsx 207-241.  `by` is the number of the status      *)
(* check that published the record (0: the initial state of the hook).     *)

NotInstalledRecord(c) ==
    [isInstalled |-> FALSE, isRunning |-> FALSE, logExists |-> FALSE,
     lastReading |-> Undefined, recentReadings |-> <<>>, by |-> c]

NoLogRecordNotRunning(c) ==
    [isInstalled |-> TRUE, isRunning |-> FALSE, logExists |-> FALSE,
     lastReading |-> Undefined, recentReadings |-> <<>>, by |-> c]

NoLogRecord(c) ==
    [isInstalled |-> TRUE, isRunning |-> TRUE, logExists |-> FALSE,
     lastReading |-> Undefined, recentReadings |-> <<>>, by |-> c]

FullRecordAppending(c, recentReadings) ==
    [isInstalled |-> TRUE, isRunning |-> TRUE, logExists |-> TRUE,
     lastReading |-> LastOf(loggingStatus.recentReadings \o recentReadings),
     recentReadings |-> loggingStatus.recentReadings \o recentReadings, by |-> c]

FullRecordRunningIfData(c, recentReadings) ==
    [isInstalled |-> TRUE, isRunning |-> recentReadings # <<>>, logExists |-> TRUE,
     lastReading |-> LastOf(recentReadings),
     recentReadings |-> recentReadings, by |-> c]

FullRecord(c, recentReadings) ==
    [isInstalled |-> TRUE, isRunning |-> TRUE, logExists |-> TRUE,
     lastReading |-> LastOf(recentReadings),
     recentReadings |-> recentReadings, by |-> c]

InitialLoggingStatus == NotInstalledRecord(0)

----------------------------------------------------------------------------
(* checkLoggingStatus: app.tsx 159-248.  A call waits for one command at a *)
(* time: pc names the command it waits for, "done" that a callback has     *)
(* published, "lost" that the command failed and no callback was           *)
(* registered for that.  failed names the command that failed, data the    *)
(* text the read command returned, sorted the callback's sortedReadings.   *)

MaxChecks == 2

NewCheck == [pc |-> "script", failed |-> "none", data |-> <<>>, sorted |-> <<>>]

(* The synchronous part of a call: setLoading(true) and the first spawn. *)
StartCheck ==
    /\ Len(checks) < MaxChecks
    /\ loading' = TRUE
    /\ checks' = Append(checks, NewCheck)

Waiting(c, pc) == c \in 1..Len(checks) /\ checks[c].pc = pc

(* test -f /usr/local/bin/temp_logger.sh exits 0 *)
ScriptProbeOk(c) ==
    /\ Waiting(c, "script")
    /\ scriptFile
    /\ checks' = [checks EXCEPT ![c].pc = "cron"]
    /\ UNCHANGED <<host, mounted, loading, loggingStatus, currentTemp,
                   timeRange, fetches, install, now, chart>>
    /\ UNCHANGED <<tempCard, adsb>>

ScriptProbeFail(c) ==
    /\ Waiting(c, "script")
    /\ loggingStatus' = NotInstalledRecord(c)
    /\ loading' = FALSE
    /\ checks' = [checks EXCEPT ![c].pc = "done", ![c].failed = "script"]
    /\ UNCHANGED <<host, mounted, currentTemp, timeRange, fetches, install,
                   now, chart>>
    /\ UNCHANGED <<tempCard, adsb>>

CronProbeSkipsLog(c) ==
    /\ Waiting(c, "cron")
    /\ cronEntries > 0
    /\ checks' = [checks EXCEPT ![c].pc = "read"]
    /\ UNCHANGED <<host, mounted, loading, loggingStatus, currentTemp,
                   timeRange, fetches, install, now, chart>>
    /\ UNCHANGED <<tempCard, adsb>>

(* grep temp_logger.sh /etc/crontab exits 0 *)
CronProbeOk(c) ==
    /\ Waiting(c, "cron")
    /\ cronEntries > 0
    /\ checks' = [checks EXCEPT ![c].pc = "log"]
    /\ UNCHANGED <<host, mounted, loading, loggingStatus, currentTemp,
                   timeRange, fetches, install, now, chart>>
    /\ UNCHANGED <<tempCard, adsb>>

CronProbeFail(c) ==
    /\ Waiting(c, "cron")
    /\ loggingStatus' = NotInstalledRecord(c)
    /\ loading' = FALSE
    /\ checks' = [checks EXCEPT ![c].pc = "done", ![c].failed = "cron"]
    /\ UNCHANGED <<host, mounted, currentTemp, timeRange, fetches, install,
                   now, chart>>
    /\ UNCHANGED <<tempCard, adsb>>

(* test -f /var/log/temperature/temperature.log exits 0 *)
LogProbeOk(c) ==
    /\ Waiting(c, "log")
    /\ logFile.exists
    /\ checks' = [checks EXCEPT ![c].pc = "read"]
    /\ UNCHANGED <<host, mounted, loading, loggingStatus, currentTemp,
                   timeRange, fetches, install, now, chart>>
    /\ UNCHANGED <<tempCard, adsb>>

LogProbeFailMerges(c) ==
    /\ Waiting(c, "log")
    /\ loggingStatus' = [loggingStatus EXCEPT !.isInstalled = TRUE,
                                              !.isRunning = TRUE,
                                              !.logExists = FALSE, !.by = c]
    /\ loading' = FALSE
    /\ checks' = [checks EXCEPT ![c].pc = "done", ![c].failed = "log"]
    /\ UNCHANGED <<host, mounted, currentTemp, timeRange, fetches, install,
                   now, chart>>
    /\ UNCHANGED <<tempCard, adsb>>

LogProbeFail(c) ==
    /\ Waiting(c, "log")
    /\ loggingStatus' = NoLogRecord(c)
    /\ loading' = FALSE
    /\ checks' = [checks EXCEPT ![c].pc = "done", ![c].failed = "log"]
    /\ UNCHANGED <<host, mounted, currentTemp, timeRange, fetches, install,
                   now, chart>>
    /\ UNCHANGED <<tempCard, adsb>>

(* The text the read command returns, as the segments data.split('\n')    *)
(* cuts it into: the lines of the live log, the lines of the archives as   *)
(* `sort` orders them, and the empty segment behind the last newline.      *)
(* sh -c 'cat temperature.log 2>/dev/null; zcat temperature.log.*.gz       *)
(* 2>/dev/null | sort || true'                                             *)
ReadOutput ==
    (IF logFile.exists THEN logFile.data ELSE <<>>)
    \o SortLines(archives)
    \o <<[line |-> <<>>, n |-> 1]>>

ReadLogDone(c) ==
    /\ Waiting(c, "read")
    /\ \E sortedReadings \in SortOutcomes(ParseLog(ReadOutput)) :
          /\ loggingStatus' = FullRecord(c, SliceLast(sortedReadings, WindowSize))
          /\ checks' = [checks EXCEPT ![c].pc = "done", ![c].data = ReadOutput,
                                      ![c].sorted = sortedReadings]
    /\ loading' = FALSE
    /\ UNCHANGED <<host, mounted, currentTemp, timeRange, fetches, install,
                   now, chart>>
    /\ UNCHANGED <<tempCard, adsb>>

(* readLogProc has a done callback only: app.tsx 175-215 *)
ReadLogFail(c) ==
    /\ Waiting(c, "read")
    /\ checks' = [checks EXCEPT ![c].pc = "lost", ![c].failed = "read"]
    /\ UNCHANGED <<host, mounted, loading, loggingStatus, currentTemp,
                   timeRange, fetches, install, now, chart>>
    /\ UNCHANGED <<tempCard, adsb>>

----------------------------------------------------------------------------
(* fetchCurrentTemperature: app.tsx 92-157 *)

(* String.prototype.toLowerCase, on the letters the model writes. *)
LowerChar(c) ==
    CASE c = "A" -> "a" [] c = "C" -> "c" [] c = "T" -> "t" [] c = "M" -> "m"
      [] c = "P" -> "p" [] OTHER -> c

ToLowerCase(s) == [i \in 1..Len(s) |-> LowerChar(s[i])]

Includes(s, pat) ==
    \E i \in 1..(Len(s) - Len(pat) + 1) : SubSeq(s, i, i + Len(pat) - 1) = pat

(* line.trim() === '' *)
IsBlank(s) == WsEnd(s, 1) > Len(s)

(* First index at or after i that holds neither a digit nor a point. *)
RECURSIVE NumberEnd(_, _)
NumberEnd(s, i) ==
    IF i <= Len(s) /\ s[i] \in Digits \cup {"."} THEN NumberEnd(s, i + 1) ELSE i

(* /\+([0-9.]+)\s*°?C/ matches with its "+" at index i.  The degree sign   *)
(* is the character written "deg".                                         *)
TempMatchAt(s, i) ==
    LET j == NumberEnd(s, i + 1)
        k == WsEnd(s, j)
        m == IF k <= Len(s) /\ s[k] = "deg" THEN k + 1 ELSE k
    IN  /\ s[i] = "+"
        /\ j > i + 1
        /\ m <= Len(s)
        /\ s[m] = "C"

(* line.match(...): the group of the leftmost match, or null. *)
TempMatch(s) ==
    LET at == {i \in 1..Len(s) : TempMatchAt(s, i)}
    IN  IF at = {} THEN Null
        ELSE LET i == CHOOSE x \in at : \A y \in at : x <= y
             IN  [k |-> "str", v |-> SubSeq(s, i + 1, NumberEnd(s, i + 1) - 1)]

TMP102 == <<"t", "m", "p", "1", "0", "2">>
ADAPTER == <<"a", "d", "a", "p", "t", "e", "r", ":">>
TEMP1 == <<"t", "e", "m", "p", "1", ":">>

(* The loop over the lines of the `sensors` output, app.tsx 103-138, from  *)
(* line i on; st = [sensorsTemp, tmp102Temp, inTmp102Section].             *)
RECURSIVE ScanSensors(_, _, _)
ScanSensors(lines, i, st) ==
    IF i > Len(lines) THEN st
    ELSE LET line == lines[i]
             match == TempMatch(line)
         IN  IF Includes(ToLowerCase(line), TMP102)
             THEN ScanSensors(lines, i + 1, [st EXCEPT !.inTmp102Section = TRUE])
             ELSE IF IsBlank(line)
             THEN ScanSensors(lines, i + 1, [st EXCEPT !.inTmp102Section = FALSE])
             ELSE IF Includes(ToLowerCase(line), ADAPTER) /\ st.inTmp102Section
             THEN ScanSensors(lines, i + 1, st)
             ELSE IF Includes(line, TEMP1) /\ match.k = "str"
             THEN IF st.inTmp102Section
                  THEN ScanSensors(lines, i + 1,
                                   [st EXCEPT !.tmp102Temp = ParseFloat(match.v)])
                  ELSE IF ~Truthy(st.sensorsTemp)
                  THEN ScanSensors(lines, i + 1,
                                   [st EXCEPT !.sensorsTemp = ParseFloat(match.v)])
                  ELSE ScanSensors(lines, i + 1, st)
             ELSE ScanSensors(lines, i + 1, st)

ParseSensors(data) ==
    ScanSensors(Split(data, "\n"), 1,
                [sensorsTemp |-> Null, tmp102Temp |-> Null, inTmp102Section |-> FALSE])

(* parseInt(thermalData.trim()) / 1000, in thousandths *)
ParseThermal(thermalData) == ParseInt(thermalData)

InitialCurrentTemp ==
    [sensors |-> Null, thermal |-> Num(0), tmp102 |-> Undefined, by |-> 0]

MaxFetches == 2

NewFetch == [pc |-> "sensors", sensorsTemp |-> Null, tmp102Temp |-> Null]

(* The synchronous part of a call: the spawn of `sensors`. *)
StartFetch ==
    /\ Len(fetches) < MaxFetches
    /\ fetches' = Append(fetches, NewFetch)

Fetching(f, pc) == f \in 1..Len(fetches) /\ fetches[f].pc = pc

(* sensorsProc.done: scan the output, spawn cat thermal_zone0/temp *)
SensorsDone(f) ==
    /\ Fetching(f, "sensors")
    /\ LET st == ParseSensors(sensorsOut)
       IN  fetches' = [fetches EXCEPT ![f] = [pc |-> "thermal",
                                               sensorsTemp |-> st.sensorsTemp,
                                               tmp102Temp |-> st.tmp102Temp]]
    /\ UNCHANGED <<host, mounted, loading, loggingStatus, currentTemp,
                   timeRange, checks, install, now, chart>>
    /\ UNCHANGED <<tempCard, adsb>>

(* no fail callback is registered on sensorsProc *)
SensorsFail(f) ==
    /\ Fetching(f, "sensors")
    /\ fetches' = [fetches EXCEPT ![f].pc = "lost"]
    /\ UNCHANGED <<host, mounted, loading, loggingStatus, currentTemp,
                   timeRange, checks, install, now, chart>>
    /\ UNCHANGED <<tempCard, adsb>>

(* thermalProc.done: setCurrentTemp *)
ThermalDone(f) ==
    /\ Fetching(f, "thermal")
    /\ currentTemp' = [sensors |-> fetches[f].sensorsTemp,
                       thermal |-> ParseThermal(thermalOut),
                       tmp102 |-> fetches[f].tmp102Temp,
                       by |-> f]
    /\ fetches' = [fetches EXCEPT ![f].pc = "done"]
    /\ UNCHANGED <<host, mounted, loading, loggingStatus, timeRange, checks,
                   install, now, chart>>
    /\ UNCHANGED <<tempCard, adsb>>

ThermalFailPublishes(f) ==
    /\ Fetching(f, "thermal")
    /\ currentTemp' = [currentTemp EXCEPT !.sensors = fetches[f].sensorsTemp,
                                          !.tmp102 = fetches[f].tmp102Temp,
                                          !.by = f]
    /\ fetches' = [fetches EXCEPT ![f].pc = "lost"]
    /\ UNCHANGED <<host, mounted, loading, loggingStatus, timeRange, checks,
                   install, now, chart>>
    /\ UNCHANGED <<tempCard, adsb>>

(* no fail callback is registered on thermalProc *)
ThermalFail(f) ==
    /\ Fetching(f, "thermal")
    /\ fetches' = [fetches EXCEPT ![f].pc = "lost"]
    /\ UNCHANGED <<host, mounted, loading, loggingStatus, currentTemp,
                   timeRange, checks, install, now, chart>>
    /\ UNCHANGED <<tempCard, adsb>>

----------------------------------------------------------------------------
(* Lines of text *)

Join3(a, b, c) == a \o <<",">> \o b \o <<",">> \o c
Join4(a, b, c, d) == a \o <<",">> \o b \o <<",">> \o c \o <<",">> \o d

Run(line, n) == [line |-> line, n |-> n]

(* Timestamps: hours 797 .. 800, and a string that is no date. *)
T797 == <<"7", "9", "7">>
T798 == <<"7", "9", "8">>
T799 == <<"7", "9", "9">>
T800 == <<"8", "0", "0">>
TBad == <<"x">>

(* Number fields *)
F1 == <<"1">>
F21 == <<"2", "1", ".", "3">>
F44 == <<"4", "4">>
F45 == <<"4", "5", ".", "2">>
F46 == <<"4", "6">>
FNone == <<>>

(* "# Timestamp,Sensors_Temp(C),Thermal_Temp(C)", app.tsx 285, cut short:  *)
(* a comment that holds two commas.                                        *)
HeaderLine == <<"#", " ", "T", ",", "T", ",", "T">>

----------------------------------------------------------------------------
(* installLogging: app.tsx 250-298.  install names the command the call    *)
(* awaits.                                                                 *)

MaxCron == 2


(* What one run of temp_logger.sh appends (app.tsx 258-275): the time of   *)
(* the run, the temp1 value of `sensors` or nothing, the thermal zone.     *)

InstallClick ==
    /\ mounted
    /\ ~loggingStatus.isInstalled
    /\ ~loading
    /\ loading' = TRUE
    /\ install' = "mkdir"
    /\ UNCHANGED <<host, mounted, loggingStatus, currentTemp, timeRange,
                   checks, fetches, now, chart>>
    /\ UNCHANGED <<tempCard, adsb>>

(* mkdir -p /var/log/temperature *)
InstallMkdirOk ==
    /\ install = "mkdir"
    /\ install' = "write"
    /\ UNCHANGED <<host, mounted, loading, loggingStatus, currentTemp,
                   timeRange, checks, fetches, now, chart>>
    /\ UNCHANGED <<tempCard, adsb>>

(* cockpit.file('/tmp/temp_logger.sh').replace(scriptContent) *)
InstallWriteOk ==
    /\ install = "write"
    /\ install' = "mv"
    /\ UNCHANGED <<host, mounted, loading, loggingStatus, currentTemp,
                   timeRange, checks, fetches, now, chart>>
    /\ UNCHANGED <<tempCard, adsb>>

(* mv /tmp/temp_logger.sh /usr/local/bin/ *)
InstallMvOk ==
    /\ install = "mv"
    /\ install' = "chmod"
    /\ scriptFile' = TRUE
    /\ UNCHANGED <<cronEntries, logFile, archives, sensorsOut, thermalOut,
                   mounted, loading, loggingStatus, currentTemp, timeRange,
                   checks, fetches, now, chart>>
    /\ UNCHANGED <<tempCard, adsb>>

(* chmod +x /usr/local/bin/temp_logger.sh *)
InstallChmodOk ==
    /\ install = "chmod"
    /\ install' = "cron"
    /\ UNCHANGED <<host, mounted, loading, loggingStatus, currentTemp,
                   timeRange, checks, fetches, now, chart>>
    /\ UNCHANGED <<tempCard, adsb>>

(* echo "* * * * * root /usr/local/bin/temp_logger.sh" >> /etc/crontab *)
InstallCronOk ==
    /\ install = "cron"
    /\ cronEntries < MaxCron
    /\ install' = "log"
    /\ cronEntries' = cronEntries + 1
    /\ UNCHANGED <<scriptFile, logFile, archives, sensorsOut, thermalOut,
                   mounted, loading, loggingStatus, currentTemp, timeRange,
                   checks, fetches, now, chart>>
    /\ UNCHANGED <<tempCard, adsb>>

(* echo "# Timestamp,..." > /var/log/temperature/temperature.log *)
InstallLogOk ==
    /\ install = "log"
    /\ install' = "chmodlog"
    /\ logFile' = [exists |-> TRUE, data |-> <<Run(HeaderLine, 1)>>]
    /\ UNCHANGED <<scriptFile, cronEntries, archives, sensorsOut, thermalOut,
                   mounted, loading, loggingStatus, currentTemp, timeRange,
                   checks, fetches, now, chart>>
    /\ UNCHANGED <<tempCard, adsb>>

(* chmod 644 /var/log/temperature/temperature.log *)
InstallChmodLogOk ==
    /\ install = "chmodlog"
    /\ install' = "run"
    /\ UNCHANGED <<host, mounted, loading, loggingStatus, currentTemp,
                   timeRange, checks, fetches, now, chart>>
    /\ UNCHANGED <<tempCard, adsb>>

(* /usr/local/bin/temp_logger.sh, then await checkLoggingStatus() *)
InstallRunOk ==
    /\ install = "run"
    /\ install' = "idle"
    /\ \E line \in {Join3(T800, F45, F46), Join3(T800, FNone, F46)} :
          logFile' = [exists |-> TRUE,
                      data |-> (IF logFile.exists THEN logFile.data ELSE <<>>)
                               \o <<Run(line, 1)>>]
    /\ StartCheck
    /\ UNCHANGED <<scriptFile, cronEntries, archives, sensorsOut, thermalOut,
                   mounted, loggingStatus, currentTemp, timeRange, fetches,
                   now, chart>>
    /\ UNCHANGED <<tempCard, adsb>>

InstallFailRefreshes ==
    /\ install # "idle"
    /\ install' = "idle"
    /\ StartCheck
    /\ UNCHANGED <<host, mounted, loggingStatus, currentTemp, timeRange,
                   fetches, now, chart>>
    /\ UNCHANGED <<tempCard, adsb>>

(* Any awaited command rejects: the catch block, app.tsx 294-297 *)
InstallFail ==
    /\ install # "idle"
    /\ install' = "idle"
    /\ loading' = FALSE
    /\ UNCHANGED <<host, mounted, loggingStatus, currentTemp, timeRange,
                   checks, fetches, now, chart>>
    /\ UNCHANGED <<tempCard, adsb>>

----------------------------------------------------------------------------
(* The range filter: app.tsx 376-409 *)

TimeRanges == {"1h", "6h", "24h", "3d", "7d", "14d", "30d", "all"}

RangeTicksSwapped(range) ==
    CASE range = "1h" -> Sec(60 * 60)
      [] range = "6h" -> Sec(24 * 60 * 60)
      [] range = "24h" -> Sec(6 * 60 * 60)
      [] range = "3d" -> Sec(3 * 24 * 60 * 60)
      [] range = "7d" -> Sec(7 * 24 * 60 * 60)
      [] range = "14d" -> Sec(14 * 24 * 60 * 60)
      [] range = "30d" -> Sec(30 * 24 * 60 * 60)

(* now.getTime() - cutoffTime.getTime() of the switch, in ticks *)
RangeTicks(range) ==
    CASE range = "1h" -> Sec(60 * 60)
      [] range = "6h" -> Sec(6 * 60 * 60)
      [] range = "24h" -> Sec(24 * 60 * 60)
      [] range = "3d" -> Sec(3 * 24 * 60 * 60)
      [] range = "7d" -> Sec(7 * 24 * 60 * 60)
      [] range = "14d" -> Sec(14 * 24 * 60 * 60)
      [] range = "30d" -> Sec(30 * 24 * 60 * 60)

NotBeforeStrict(reading, cutoffTime) ==
    LET t == GetTime(reading.timestamp)
    IN  IsNum(t) /\ t.v > cutoffTime

NotBeforeOrInvalid(reading, cutoffTime) ==
    LET t == GetTime(reading.timestamp)
    IN  ~IsNum(t) \/ t.v >= cutoffTime

(* new Date(reading.timestamp) >= cutoffTime: false for an Invalid Date *)
NotBefore(reading, cutoffTime) ==
    LET t == GetTime(reading.timestamp)
    IN  IsNum(t) /\ t.v >= cutoffTime

FilterReadingsByTimeRange(readings, range, clock) ==
    IF range = "all" THEN readings
    ELSE IF range \in {"1h", "6h", "24h", "3d", "7d", "14d", "30d"}
    THEN SelectSeq(readings, LAMBDA run : NotBefore(run.r, clock - RangeTicks(range)))
    ELSE readings

(* The graph tab shows the selector and the chart: app.tsx 530 *)
GraphShown == loggingStatus.isInstalled /\ loggingStatus.recentReadings # <<>>

(* onChange of the selector: app.tsx 539-541 *)
SelectRangeReloads(range) ==
    /\ mounted
    /\ GraphShown
    /\ range # timeRange
    /\ timeRange' = range
    /\ StartCheck
    /\ UNCHANGED <<host, mounted, loggingStatus, currentTemp, fetches, install,
                   now, chart>>
    /\ UNCHANGED <<tempCard, adsb>>

SelectRange(range) ==
    /\ mounted
    /\ GraphShown
    /\ range # timeRange
    /\ timeRange' = range
    /\ UNCHANGED <<host, mounted, loading, loggingStatus, currentTemp, checks,
                   fetches, install, now, chart>>
    /\ UNCHANGED <<tempCard, adsb>>

(* A render of the graph tab: getChartData, app.tsx 300-341, at new Date() *)
Render ==
    /\ mounted
    /\ GraphShown
    /\ chart' = FilterReadingsByTimeRange(loggingStatus.recentReadings, timeRange, now)
    /\ UNCHANGED <<host, mounted, loading, loggingStatus, currentTemp,
                   timeRange, checks, fetches, install, now>>
    /\ UNCHANGED <<tempCard, adsb>>

----------------------------------------------------------------------------
(* The polling driver: app.tsx 411-430, 482-489 *)

(* useEffect(..., []): the first fetch and the first status check *)
Mount ==
    /\ ~mounted
    /\ mounted' = TRUE
    /\ StartFetch
    /\ StartCheck
    /\ UNCHANGED <<host, loggingStatus, currentTemp, timeRange, install, now,
                   chart>>
    /\ UNCHANGED <<tempCard, adsb>>

(* The interval callback.  It is created by the effect of the first render *)
(* and reads the loggingStatus of that render.                             *)
TimerTick ==
    /\ mounted
    /\ StartFetch
    /\ IF InitialLoggingStatus.isInstalled
       THEN StartCheck
       ELSE UNCHANGED <<loading, checks>>
    /\ UNCHANGED <<host, mounted, loggingStatus, currentTemp, timeRange,
                   install, now, chart>>
    /\ UNCHANGED <<tempCard, adsb>>

RefreshClickAnytime ==
    /\ mounted
    /\ StartCheck
    /\ UNCHANGED <<host, mounted, loggingStatus, currentTemp, timeRange,
                   fetches, install, now, chart>>
    /\ UNCHANGED <<tempCard, adsb>>

(* The Refresh button, disabled while loading *)
RefreshClick ==
    /\ mounted
    /\ ~loading
    /\ StartCheck
    /\ UNCHANGED <<host, mounted, loggingStatus, currentTemp, timeRange,
                   fetches, install, now, chart>>
    /\ UNCHANGED <<tempCard, adsb>>

----------------------------------------------------------------------------
(* The clock *)

Hour(h) == h * Sec(3600)

NowStart == Hour(800)

(* The instants the clock takes: for each range, the instant at which the  *)
(* reading of hour 800 lies on the cutoff, and the tick after it.          *)
NowSet ==
    {NowStart}
    \cup {Hour(800) + RangeTicks(r) + d : r \in TimeRanges \ {"all"}, d \in {0, 1}}

ClockAdvance ==
    /\ \E t \in NowSet : t > now /\ now' = t
    /\ UNCHANGED <<host, mounted, loading, loggingStatus, currentTemp,
                   timeRange, checks, fetches, install, chart>>
    /\ UNCHANGED <<tempCard, adsb>>

----------------------------------------------------------------------------
(* Texts of several lines, each ended by a newline *)

RECURSIVE JoinLines(_)
JoinLines(lines) ==
    IF lines = <<>> THEN <<>> ELSE lines[1] \o <<"\n">> \o JoinLines(Tail(lines))

----------------------------------------------------------------------------
(* The current-temperature card: app.tsx 78-90, 432, 456-461 *)

(* temp >= n for a temperature in thousandths: false for NaN *)
AtLeast(x, n) == IsNum(x) /\ x.v >= n * 1000

GetTempColorLate(x) ==
    IF AtLeast(x, 80) THEN "#dc3545"
    ELSE IF IsNum(x) /\ x.v > 70 * 1000 THEN "#fd7e14"
    ELSE IF AtLeast(x, 60) THEN "#ffc107"
    ELSE "#28a745"

GetTempColor(x) ==
    IF AtLeast(x, 80) THEN "#dc3545"
    ELSE IF AtLeast(x, 70) THEN "#fd7e14"
    ELSE IF AtLeast(x, 60) THEN "#ffc107"
    ELSE "#28a745"

GetTempStatus(x) ==
    IF AtLeast(x, 80) THEN "Critical"
    ELSE IF AtLeast(x, 70) THEN "Hot"
    ELSE IF AtLeast(x, 60) THEN "Warm"
    ELSE "Normal"

(* currentTemp.sensors || currentTemp.thermal *)
CurrentTempValue(ct) == IF Truthy(ct.sensors) THEN ct.sensors ELSE ct.thermal

CardOf(ct) ==
    [value |-> CurrentTempValue(ct),
     color |-> GetTempColor(CurrentTempValue(ct)),
     status |-> GetTempStatus(CurrentTempValue(ct))]

(* A render of the card *)
RenderCard ==
    /\ mounted
    /\ tempCard' = CardOf(currentTemp)
    /\ UNCHANGED <<host, mounted, loading, loggingStatus, currentTemp,
                   timeRange, checks, fetches, install, now, chart>>
    /\ UNCHANGED adsb

(* The thermal zone of the host takes another temperature. *)
ThermalTexts ==
    {<<"5", "9", "9", "9", "9", "\n">>, <<"6", "0", "0", "0", "0", "\n">>, <<"6", "9", "9", "9", "9", "\n">>, <<"7", "0", "0", "0", "0", "\n">>, <<"7", "9", "9", "9", "9", "\n">>, <<"8", "0", "0", "0", "0", "\n">>}

ThermalChange ==
    /\ \E t \in ThermalTexts : t # thermalOut /\ thermalOut' = t
    /\ UNCHANGED <<scriptFile, cronEntries, logFile, archives, sensorsOut,
                   mounted, loading, loggingStatus, currentTemp, timeRange,
                   checks, fetches, install, now, chart, tempCard>>
    /\ UNCHANGED adsb

----------------------------------------------------------------------------
(* The ADS-B monitor: unnamed/part_002 70-145, 223-226 *)

NA == <<"N", "/", "A">>


(* JSON.parse of what curl printed.  The texts of the model are "{n}", for *)
(* a statistics object with n aircraft, and texts that are no JSON.        *)
JsonParse(data) ==
    IF /\ Len(data) >= 3
       /\ data[1] = "{"
       /\ data[Len(data)] = "}"
       /\ DigitsEnd(data, 2) = Len(data)
    THEN [ok |-> TRUE, value |-> Num(NatOf(data, 2, Len(data)))]
    ELSE [ok |-> FALSE, value |-> Null]


SINCE == <<"s", "i", "n", "c", "e">>

(* First index at or after i that holds c; Len(s) + 1 when there is none. *)
RECURSIVE IndexOf(_, _, _)
IndexOf(s, c, i) ==
    IF i > Len(s) \/ s[i] = c THEN i ELSE IndexOf(s, c, i + 1)

(* /since\s+(.+?);/ matched with "since" at index i: the group, or null. *)
SinceAt(s, i) ==
    LET a == i + Len(SINCE)
        w == WsEnd(s, a)
        semi == IndexOf(s, ";", w + 1)
    IN  IF ~(i + Len(SINCE) - 1 <= Len(s) /\ SubSeq(s, i, a - 1) = SINCE /\ w > a)
        THEN Null
        ELSE IF semi <= Len(s)
        THEN [k |-> "str", v |-> SubSeq(s, w, semi - 1)]
        ELSE IF w <= Len(s) /\ s[w] = ";" /\ w - a >= 2
        THEN [k |-> "str", v |-> <<s[w - 1]>>]
        ELSE Null

(* line.match(/since\s+(.+?);/): the group of the leftmost match, or null. *)
SinceMatch(s) ==
    LET at == {i \in 1..Len(s) : SinceAt(s, i) # Null}
    IN  IF at = {} THEN Null
        ELSE SinceAt(s, CHOOSE x \in at : \A y \in at : x <= y)

(* The loop over the lines of `systemctl status`: part_002 103-111 *)
RECURSIVE ScanStatus(_, _, _)
ScanStatus(lines, i, st) ==
    IF i > Len(lines) THEN st
    ELSE IF Includes(lines[i], <<"A", "c", "t", "i", "v", "e", ":">>)
    THEN LET match == SinceMatch(lines[i])
         IN  ScanStatus(lines, i + 1,
                        [isActive |-> Includes(lines[i], <<"a", "c", "t", "i", "v", "e", " ", "(", "r", "u", "n", "n", "i", "n", "g", ")">>),
                         startTime |-> IF match # Null THEN match.v ELSE st.startTime])
    ELSE ScanStatus(lines, i + 1, st)


StatusOutputs ==
    {(* running *)
     JoinLines(<< <<"r", "e", "a", "d", "s", "b">>,
                  <<" ", "A", "c", "t", "i", "v", "e", ":", " ", "a", "c", "t", "i", "v", "e", " ", "(", "r", "u", "n", "n", "i", "n", "g", ")", " ", "s", "i", "n", "c", "e", " ", "M", "o", "n", " ", "1", "0", ";", " ", "1", "h">>,
                  <<" ", "P", "I", "D", ":", " ", "7">> >>),
     (* running, no start time *)
     JoinLines(<< <<"r", "e", "a", "d", "s", "b">>,
                  <<" ", "A", "c", "t", "i", "v", "e", ":", " ", "a", "c", "t", "i", "v", "e", " ", "(", "r", "u", "n", "n", "i", "n", "g", ")">> >>),
     (* stopped *)
     JoinLines(<< <<"r", "e", "a", "d", "s", "b">>,
                  <<" ", "A", "c", "t", "i", "v", "e", ":", " ", "i", "n", "a", "c", "t", "i", "v", "e", " ", "(", "d", "e", "a", "d", ")", " ", "s", "i", "n", "c", "e", " ", "T", "u", "e", ";", " ", "2", "h">> >>)}

MaxAdsbFetches == 2

(* fetchADSBStats, part_002 84-130: setLoading(true), both spawns, and      *)
(* setLoading(false), in one synchronous run.  by names who called.        *)
StartAdsbFetch(by) ==
    /\ Len(adsbFetches) < MaxAdsbFetches
    /\ adsbFetches' = Append(adsbFetches,
                             [stats |-> "pending", status |-> "pending", by |-> by])
    /\ adsbLoading' = FALSE

(* useEffect(..., []): the first fetch and setInterval(fetchADSBStats, 10000) *)
AdsbMount ==
    /\ adsbPhase = "created"
    /\ adsbPhase' = "mounted"
    /\ adsbInterval' = TRUE
    /\ StartAdsbFetch("mount")
    /\ UNCHANGED <<stats, receiverInfo>>
    /\ UNCHANGED temp

(* The interval fires: its callback is fetchADSBStats. *)
AdsbTick ==
    /\ adsbInterval
    /\ StartAdsbFetch("tick")
    /\ UNCHANGED <<adsbPhase, adsbInterval, stats, receiverInfo>>
    /\ UNCHANGED temp

(* The Refresh button of the receiver card *)
AdsbRefreshClick ==
    /\ adsbPhase = "mounted"
    /\ ~adsbLoading
    /\ StartAdsbFetch("click")
    /\ UNCHANGED <<adsbPhase, adsbInterval, stats, receiverInfo>>
    /\ UNCHANGED temp

AdsbUnmountLeavesInterval ==
    /\ adsbPhase = "mounted"
    /\ adsbPhase' = "unmounted"
    /\ UNCHANGED <<adsbInterval, adsbLoading, stats, receiverInfo, adsbFetches>>
    /\ UNCHANGED temp

(* The cleanup of the effect: clearInterval(interval) *)
AdsbUnmount ==
    /\ adsbPhase = "mounted"
    /\ adsbPhase' = "unmounted"
    /\ adsbInterval' = FALSE
    /\ UNCHANGED <<adsbLoading, stats, receiverInfo, adsbFetches>>
    /\ UNCHANGED temp

AdsbWaiting(f, proc) == f \in 1..Len(adsbFetches) /\ adsbFetches[f][proc] = "pending"

(* statsProc.done: setStats(JSON.parse(data)), or the catch of the parse.  *)
(* A state update of an unmounted component is dropped.                    *)
StatsDone(f) ==
    /\ AdsbWaiting(f, "stats")
    /\ \E data \in {<<"{", "3", "}">>, <<"{", "1", "2", "}">>, <<"<", "h", "t", "m", "l", ">">>, <<>>} :
          stats' = IF adsbPhase = "mounted" /\ JsonParse(data).ok
                   THEN JsonParse(data).value ELSE stats
    /\ adsbFetches' = [adsbFetches EXCEPT ![f].stats = "done"]
    /\ UNCHANGED <<adsbPhase, adsbInterval, adsbLoading, receiverInfo>>
    /\ UNCHANGED temp

(* no fail callback is registered on statsProc *)
StatsFail(f) ==
    /\ AdsbWaiting(f, "stats")
    /\ adsbFetches' = [adsbFetches EXCEPT ![f].stats = "lost"]
    /\ UNCHANGED <<adsbPhase, adsbInterval, adsbLoading, stats, receiverInfo>>
    /\ UNCHANGED temp

(* statusProc.done: part_002 101-118 *)
StatusDone(f) ==
    /\ AdsbWaiting(f, "status")
    /\ \E data \in StatusOutputs :
          LET st == ScanStatus(Split(data, "\n"), 1,
                               [isActive |-> FALSE, startTime |-> <<>>])
          IN  receiverInfo' =
                 IF adsbPhase = "mounted"
                 THEN [status |-> IF st.isActive THEN "Active" ELSE "Inactive",
                       uptime |-> IF st.startTime # <<>> THEN st.startTime ELSE NA]
                 ELSE receiverInfo
    /\ adsbFetches' = [adsbFetches EXCEPT ![f].status = "done"]
    /\ UNCHANGED <<adsbPhase, adsbInterval, adsbLoading, stats>>
    /\ UNCHANGED temp

(* statusProc.fail: part_002 119-121 *)
StatusFail(f) ==
    /\ AdsbWaiting(f, "status")
    /\ receiverInfo' = IF adsbPhase = "mounted"
                       THEN [receiverInfo EXCEPT !.status = "Service check failed"]
                       ELSE receiverInfo
    /\ adsbFetches' = [adsbFetches EXCEPT ![f].status = "failed"]
    /\ UNCHANGED <<adsbPhase, adsbInterval, adsbLoading, stats>>
    /\ UNCHANGED temp

----------------------------------------------------------------------------
(* Initial states *)


LogFileOf(text) == [exists |-> TRUE, data |-> text]

(* The state of the component after its first render: app.tsx 65-75 *)
InitApp ==
    /\ mounted = FALSE
    /\ loading = FALSE
    /\ loggingStatus = InitialLoggingStatus
    /\ currentTemp = InitialCurrentTemp
    /\ timeRange = "1h"
    /\ checks = <<>>
    /\ fetches = <<>>
    /\ install = "idle"
    /\ now = NowStart
    /\ chart = <<>>
    /\ tempCard = CardOf(InitialCurrentTemp)
    /\ adsbPhase = "created"
    /\ adsbInterval = FALSE
    /\ adsbLoading = FALSE
    /\ stats = Null
    /\ receiverInfo = [status |-> "Unknown", uptime |-> NA]
    /\ adsbFetches = <<>>

(* `sensors`: a CPU section, then a TMP102 section *)
SensorsWithTmp102 ==
    JoinLines(<< <<"c", "p", "u">>,
                 <<"t", "e", "m", "p", "1", ":", " ", "+", "4", "5", ".", "0", "deg", "C">>,
                 <<>>,
                 <<"T", "M", "P", "1", "0", "2">>,
                 <<"A", "d", "a", "p", "t", "e", "r", ":", " ", "x">>,
                 <<"t", "e", "m", "p", "1", ":", " ", "+", "2", "1", ".", "5", "deg", "C">> >>)

(* `sensors`: a CPU section only *)
SensorsCpuOnly ==
    JoinLines(<< <<"c", "p", "u">>,
                 <<"t", "e", "m", "p", "1", ":", " ", "+", "6", "1", ".", "5", " ", "C">> >>)

ThermalText == <<"4", "6", "0", "0", "0", "\n">>
ThermalHot == <<"7", "1", "5", "0", "0", "\n">>

(* Logs of the driver specification *)
SmallLog == <<Run(HeaderLine, 1), Run(Join3(T799, F45, F46), 1)>>
SmallArchive == <<Run(Join4(T797, F44, F45, F21), 1)>>

HostFiles ==
    /\ scriptFile \in BOOLEAN
    /\ cronEntries \in {0, 1}
    /\ logFile \in {[exists |-> FALSE, data |-> <<>>], LogFileOf(<<Run(HeaderLine, 1)>>), LogFileOf(SmallLog)}
    /\ archives \in {<<>>, SmallArchive}

Installed ==
    /\ scriptFile = TRUE
    /\ cronEntries = 1
    /\ logFile = LogFileOf(SmallLog)
    /\ archives = SmallArchive

Init ==
    /\ HostFiles
    /\ sensorsOut = SensorsCpuOnly
    /\ thermalOut = ThermalText
    /\ InitApp

InitFetch ==
    /\ Installed
    /\ sensorsOut \in {SensorsWithTmp102, SensorsCpuOnly}
    /\ thermalOut \in {ThermalText, ThermalHot}
    /\ InitApp

----------------------------------------------------------------------------
(* Status: the status checks and installs, as the UI and the timer start   *)
(* them and their commands complete.                                       *)

CheckStep(c) ==
    \/ ScriptProbeOk(c)
    \/ ScriptProbeFail(c)
    \/ CronProbeOk(c)
    \/ CronProbeFail(c)
    \/ LogProbeOk(c)
    \/ LogProbeFail(c)
    \/ ReadLogDone(c)
    \/ ReadLogFail(c)

InstallStep ==
    \/ InstallMkdirOk
    \/ InstallWriteOk
    \/ InstallMvOk
    \/ InstallChmodOk
    \/ InstallCronOk
    \/ InstallLogOk
    \/ InstallChmodLogOk
    \/ InstallRunOk
    \/ InstallFail

Next ==
    \/ Mount
    \/ TimerTick
    \/ RefreshClick
    \/ InstallClick
    \/ InstallStep
    \/ \E c \in 1..MaxChecks : CheckStep(c)

Spec == Init /\ [][Next]_vars

----------------------------------------------------------------------------
(* Current temperature: the fetches, as the mount and the timer start them *)
(* and their commands complete.                                            *)

FetchStep(f) ==
    \/ SensorsDone(f)
    \/ SensorsFail(f)
    \/ ThermalDone(f)
    \/ ThermalFail(f)

NextFetch ==
    \/ Mount
    \/ TimerTick
    \/ \E f \in 1..MaxFetches : FetchStep(f)

SpecFetch == InitFetch /\ [][NextFetch]_vars

----------------------------------------------------------------------------
(* Pipeline: one status check over every log the bounds allow.             *)

MaxLines == 2

LineComment == HeaderLine
LinePrimaryEmpty == Join3(T799, FNone, F46)
LineThree == Join3(T799, F45, F46)
LineFour == Join4(T798, F45, F46, F21)
LineZeroAuxEmpty == Join4(T800, <<"0">>, F46, FNone)
LineDateBad == Join3(TBad, F1, F46)
LineOld == Join4(T797, F44, F45, F21)

(* The runs a live log is made of: single lines of every kind, and runs as *)
(* long as the window and one shorter.                                     *)
PipelineRuns ==
    {Run(l, 1) : l \in {LineComment, <<>>, LinePrimaryEmpty, LineThree, LineFour,
                        LineZeroAuxEmpty, Join3(T799, F45, FNone), Join4(T798, F1, <<"x">>, F21), LineDateBad,
                        (T799 \o <<",">> \o F46), (Join4(T799, F1, F1, F1) \o <<",">> \o F1)}}
    \cup {Run(LineZeroAuxEmpty, WindowSize), Run(LineFour, WindowSize - 1)}


(* Archives, as the files hold them: none, one line, two lines that `sort` *)
(* has to exchange.                                                        *)

InitPipeline ==
    /\ scriptFile = TRUE
    /\ cronEntries = 1
    /\ logFile \in {LogFileOf(t) : t \in (UNION {[1..k -> PipelineRuns] : k \in 0..MaxLines})}
    /\ archives \in {<<>>, <<Run(LineOld, 1)>>, <<Run(LineDateBad, 1), Run(LineOld, 1)>>}
    /\ sensorsOut = SensorsCpuOnly
    /\ thermalOut = ThermalText
    /\ InitApp

NextPipeline ==
    \/ Mount
    \/ \E c \in 1..MaxChecks : CheckStep(c)

SpecPipeline == InitPipeline /\ [][NextPipeline]_vars

----------------------------------------------------------------------------
(* Graph: the range selector, the clock and the renders of the graph tab   *)
(* over a loaded window.                                                   *)


InitGraph ==
    /\ scriptFile = TRUE
    /\ cronEntries = 1
    /\ logFile \in {LogFileOf(t) : t \in ({<<Run(LineFour, 1), Run(LineThree, 1), Run(LineZeroAuxEmpty, 1)>>,
     <<Run(LineZeroAuxEmpty, 1), Run(LineDateBad, 1), Run(LinePrimaryEmpty, 1)>>,
     <<Run(LineThree, WindowSize), Run(LineZeroAuxEmpty, 1)>>})}
    /\ archives = <<Run(LineOld, 1)>>
    /\ sensorsOut = SensorsCpuOnly
    /\ thermalOut = ThermalText
    /\ InitApp

NextGraph ==
    \/ Mount
    \/ \E c \in 1..MaxChecks :
          /\ ScriptProbeOk(c) \/ CronProbeOk(c) \/ LogProbeOk(c) \/ ReadLogDone(c)
         
    \/ \E range \in TimeRanges : SelectRange(range)
    \/ ClockAdvance
    \/ Render

SpecGraph == InitGraph /\ [][NextGraph]_vars

----------------------------------------------------------------------------
(* Card: the fetches over every `sensors` output and a thermal zone that   *)
(* changes, and the renders of the current-temperature card.               *)

SensorTexts ==
    {SensorsCpuOnly,
     SensorsWithTmp102,
     (* no temp1 line *)
     JoinLines(<< <<"c", "p", "u">>,
                  <<"f", "a", "n", "1", ":", " ", "1", "2", "0", "0", " ", "R", "P", "M">> >>),
     (* a first value of 0, then a second chip *)
     JoinLines(<< <<"c", "p", "u">>,
                  <<"t", "e", "m", "p", "1", ":", " ", "+", "0", ".", "0", "deg", "C">>,
                  <<>>,
                  <<"g", "p", "u">>,
                  <<"t", "e", "m", "p", "1", ":", " ", "+", "4", "5", ".", "0", "deg", "C">> >>),
     (* two chips, neither a TMP102 *)
     JoinLines(<< <<"c", "p", "u">>,
                  <<"t", "e", "m", "p", "1", ":", " ", "+", "6", "1", ".", "5", "deg", "C">>,
                  <<>>,
                  <<"g", "p", "u">>,
                  <<"t", "e", "m", "p", "1", ":", " ", "+", "4", "5", ".", "0", "deg", "C">> >>),
     (* the TMP102 section first *)
     JoinLines(<< <<"T", "M", "P", "1", "0", "2">>,
                  <<"A", "d", "a", "p", "t", "e", "r", ":", " ", "x">>,
                  <<"t", "e", "m", "p", "1", ":", " ", "+", "2", "1", ".", "5", "deg", "C">>,
                  <<>>,
                  <<"c", "p", "u">>,
                  <<"t", "e", "m", "p", "1", ":", " ", "+", "6", "1", ".", "5", " ", "C">> >>)}

InitCard ==
    /\ Installed
    /\ sensorsOut \in SensorTexts
    /\ thermalOut \in ThermalTexts
    /\ InitApp

NextCard ==
    \/ Mount
    \/ TimerTick
    \/ \E f \in 1..MaxFetches : FetchStep(f)
    \/ ThermalChange
    \/ RenderCard

SpecCard == InitCard /\ [][NextCard]_vars

----------------------------------------------------------------------------
(* ADS-B: the monitor from its mount to its unmount.                       *)

InitAdsbMonitor ==
    /\ Installed
    /\ sensorsOut = SensorsCpuOnly
    /\ thermalOut = ThermalText
    /\ InitApp

NextAdsb ==
    \/ AdsbMount
    \/ AdsbTick
    \/ AdsbRefreshClick
    \/ AdsbUnmount
    \/ \E f \in 1..MaxAdsbFetches :
          StatsDone(f) \/ StatsFail(f) \/ StatusDone(f) \/ StatusFail(f)

SpecAdsb == InitAdsbMonitor /\ [][NextAdsb]_vars

----------------------------------------------------------------------------
(* Properties *)

Started == 1..Len(checks)

(* The status check c has published the record on display. *)
Shown(c) == c \in Started /\ checks[c].pc = "done" /\ loggingStatus.by = c

(* The windows a status check may publish for the text data. *)
WindowsOf(data) ==
    {SliceLast(s, WindowSize) : s \in SortOutcomes(ParseLog(data))}

(* The last element of an array, by its index. *)
LastElem(rs) == IF rs = <<>> THEN Undefined ELSE ElemAt(rs, RunLen(rs))

(* The record check c publishes is the one its probes determine. *)
C1_Published(c) ==
    LET k == checks'[c]
        st == loggingStatus'
    IN  /\ st.by = c
        /\ k.failed \in {"script", "cron"} =>
              /\ ~st.isInstalled /\ ~st.isRunning /\ ~st.logExists
              /\ st.recentReadings = <<>>
              /\ st.lastReading = Undefined
        /\ k.failed = "log" =>
              /\ st.isInstalled /\ st.isRunning /\ ~st.logExists
              /\ st.recentReadings = <<>>
              /\ st.lastReading = Undefined
        /\ k.failed = "none" =>
              /\ st.isInstalled /\ st.isRunning /\ st.logExists
              /\ st.recentReadings \in WindowsOf(k.data)
              /\ st.lastReading = LastElem(st.recentReadings)

(* C1: the step that finishes a status check publishes the record its      *)
(* probes determine: not installed when the script probe or the cron probe *)
(* failed, installed without log when the log-file probe failed, and the   *)
(* window of the text read, with its last element as lastReading, when all *)
(* three succeeded and the read returned.                                  *)
C1_StatusFixedByProbes ==
    [][\A c \in Started :
          (checks[c].pc # "done" /\ checks'[c].pc = "done") => C1_Published(c)]_vars

C1_Witness ==
    \E c \in Started :
       /\ Shown(c)
       /\ checks[c].failed = "none"
       /\ loggingStatus.recentReadings # <<>>
       /\ loggingStatus.lastReading = LastElem(loggingStatus.recentReadings)

(* C2: a result of an older refresh never replaces what a newer refresh    *)
(* has published: the number of the call whose result is on display never  *)
(* decreases, for the current temperature and for the status record.       *)
C2_StaleResultDropped ==
    [][/\ currentTemp'.by >= currentTemp.by
       /\ loggingStatus'.by >= loggingStatus.by]_vars

NothingOutstanding ==
    /\ \A c \in Started : checks[c].pc \in {"done", "lost"}
    /\ install = "idle"

(* C3: a status check ends by publishing and by resetting loading: once no *)
(* command of a status check or an install is outstanding, every check has *)
(* published and loading is false.                                         *)
C3_EveryCheckFinishes ==
    NothingOutstanding =>
       /\ \A c \in Started : checks[c].pc = "done"
       /\ loading = FALSE

(* The status check c has published the window of the text it read. *)
Full(c) == Shown(c) /\ checks[c].failed = "none"

Window == loggingStatus.recentReadings

Min(a, b) == IF a <= b THEN a ELSE b

(* C4: no Reading comes from a line whose referenceTemp field is empty or  *)
(* not a number: every Reading of a published window has a number as its   *)
(* thermalTemp.                                                            *)
C4_BadReferenceDropped ==
    \A i \in 1..Len(Window) : IsNum(Window[i].r.thermalTemp)

(* The fields of a line are one more than its commas. *)
Commas(line) == Cardinality({i \in 1..Len(line) : line[i] = ","})

CountsAsReading(line) ==
    line # <<>> /\ line[1] # "#" /\ Commas(line) \in {2, 3}

RECURSIVE ReadingLines(_)
ReadingLines(data) ==
    IF data = <<>> THEN 0
    ELSE (IF CountsAsReading(data[1].line) THEN data[1].n ELSE 0)
         + ReadingLines(Tail(data))

(* C5: empty lines, comment lines and lines of other than 3 or 4 fields    *)
(* yield no Reading: the window holds as many Readings as the text has     *)
(* non-comment lines of 3 or 4 fields, up to the window size.              *)
C5_OneReadingPerLine ==
    \A c \in Started :
       Full(c) => RunLen(Window) = Min(WindowSize, ReadingLines(checks[c].data))

C5_Witness ==
    \E c \in Started :
       /\ Full(c)
       /\ Window # <<>>
       /\ \E i, j, k \in 1..Len(checks[c].data) :
             /\ checks[c].data[i].line # <<>>
             /\ checks[c].data[i].line[1] # "#"
             /\ ~CountsAsReading(checks[c].data[i].line)
             /\ checks[c].data[j].line = LineComment
             /\ CountsAsReading(checks[c].data[k].line)

(* What the valid lines of the texts denote, temperatures in thousandths. *)
ValidLines ==
    {LinePrimaryEmpty, LineThree, LineFour, LineZeroAuxEmpty, LineDateBad, LineOld}

Denotes(line) ==
    CASE line = LinePrimaryEmpty ->
            [timestamp |-> T799, sensorsTemp |-> Null,
             thermalTemp |-> Num(46000), tmp102Temp |-> Undefined]
      [] line = LineThree ->
            [timestamp |-> T799, sensorsTemp |-> Num(45200),
             thermalTemp |-> Num(46000), tmp102Temp |-> Undefined]
      [] line = LineFour ->
            [timestamp |-> T798, sensorsTemp |-> Num(45200),
             thermalTemp |-> Num(46000), tmp102Temp |-> Num(21300)]
      [] line = LineZeroAuxEmpty ->
            [timestamp |-> T800, sensorsTemp |-> Num(0),
             thermalTemp |-> Num(46000), tmp102Temp |-> Null]
      [] line = LineDateBad ->
            [timestamp |-> TBad, sensorsTemp |-> Num(1000),
             thermalTemp |-> Num(46000), tmp102Temp |-> Undefined]
      [] line = LineOld ->
            [timestamp |-> T797, sensorsTemp |-> Num(44000),
             thermalTemp |-> Num(45200), tmp102Temp |-> Num(21300)]

RECURSIVE LinesEqual(_, _)
LinesEqual(data, line) ==
    IF data = <<>> THEN 0
    ELSE (IF data[1].line = line THEN data[1].n ELSE 0)
         + LinesEqual(Tail(data), line)

(* C6: every valid line is decoded field by field: the timestamp is field  *)
(* 0 as written, the primary and the auxiliary temperature are the number  *)
(* written or null when the field is empty, never 0 for an empty field and *)
(* 0 for "0", the reference temperature is the number written.  A window   *)
(* that holds every Reading holds, for each valid line, as many copies of  *)
(* the Reading the line denotes as the text has copies of the line.        *)
C6_ValidLineDecoding ==
    \A c \in Started :
       (Full(c) /\ ReadingLines(checks[c].data) <= WindowSize) =>
          \A line \in ValidLines :
             CountOf(Window, Denotes(line)) = LinesEqual(checks[c].data, line)

C6_Witness ==
    \E c \in Started :
       /\ Full(c)
       /\ ReadingLines(checks[c].data) <= WindowSize
       /\ CountOf(Window, Denotes(LineZeroAuxEmpty)) > 0
       /\ CountOf(Window, Denotes(LinePrimaryEmpty)) > 0

Time(reading) == GetTime(reading.timestamp)

(* a's timestamp is later than b's *)
Later(a, b) == IsNum(Time(a)) /\ IsNum(Time(b)) /\ Time(a).v > Time(b).v

Ascending(rs) == \A i \in 1..(Len(rs) - 1) : ~Later(rs[i].r, rs[i + 1].r)

AllDated(rs) == \A i \in 1..Len(rs) : IsNum(Time(rs[i].r))

(* w holds the elements of rs, each as often: all of them when rs fits the *)
(* window, WindowSize of them otherwise.                                   *)
PermutationIn(w, rs) ==
    /\ RunLen(w) = Min(WindowSize, RunLen(rs))
    /\ \A x \in Elems(rs) \cup Elems(w) :
          IF RunLen(rs) <= WindowSize
          THEN CountOf(w, x) = CountOf(rs, x)
          ELSE CountOf(w, x) <= CountOf(rs, x)

(* C7, as stated: for every log text the published sequence is a           *)
(* permutation of the parsed Readings in which no Reading's timestamp is   *)
(* later than the next one's.                                              *)
C7_SortedPermutation ==
    \A c \in Started :
       Full(c) =>
          /\ PermutationIn(Window, ParseLog(checks[c].data))
          /\ Ascending(Window)

(* C7, amended: the same for every log text whose Readings all carry a     *)
(* timestamp that parses to a valid date.                                  *)
C7_SortedPermutationOfDated ==
    \A c \in Started :
       (Full(c) /\ AllDated(ParseLog(checks[c].data))) =>
          /\ PermutationIn(Window, ParseLog(checks[c].data))
          /\ Ascending(Window)

C7_Witness ==
    \E c \in Started :
       /\ Full(c)
       /\ AllDated(ParseLog(checks[c].data))
       /\ Len(Window) >= 2
       /\ ~Ascending(ParseLog(checks[c].data))
       /\ Ascending(Window)

SameStamp(rs, ts) == SelectSeq(rs, LAMBDA run : run.r.timestamp = ts)

Stamps(rs) == {rs[i].r.timestamp : i \in 1..Len(rs)}

KeepsEqualStamps(w, rs) ==
    \A ts \in Stamps(rs) \cup Stamps(w) : SameStamp(w, ts) = SameStamp(rs, ts)

(* C8, as stated: Readings with identical timestamps are all kept, and in  *)
(* the order of the input text: for every timestamp, the Readings carrying *)
(* it are the same sequence in the window as in the parsed text.           *)
C8_EqualStampsKept ==
    \A c \in Started :
       (Full(c) /\ ReadingLines(checks[c].data) <= WindowSize) =>
          KeepsEqualStamps(Window, ParseLog(checks[c].data))

(* C8, amended: every Reading is kept as often as the text has it, and for *)
(* every log text whose Readings all carry a timestamp that parses to a    *)
(* valid date the Readings of equal timestamp keep the order of the text.  *)
C8_EqualStampsKeptOfDated ==
    \A c \in Started :
       (Full(c) /\ ReadingLines(checks[c].data) <= WindowSize) =>
          LET parsed == ParseLog(checks[c].data)
          IN  /\ \A x \in Elems(parsed) : CountOf(Window, x) = CountOf(parsed, x)
              /\ AllDated(parsed) => KeepsEqualStamps(Window, parsed)

C8_Witness ==
    \E c \in Started :
       /\ Full(c)
       /\ ReadingLines(checks[c].data) <= WindowSize
       /\ AllDated(ParseLog(checks[c].data))
       /\ Len(SameStamp(Window, T799)) = 2
       /\ Window # ParseLog(checks[c].data)

(* The number of elements in the first k runs. *)
Upto(rs, k) == RunLen(SubSeq(rs, 1, k))

(* An array of runs is constant between the ends of its runs, so two such  *)
(* arrays agree everywhere when they agree next to every end of a run of   *)
(* either: the indices of w at which w and the last elements of s are      *)
(* compared.                                                               *)
Ends(w, s) ==
    LET lw == RunLen(w)
        off == RunLen(s) - lw
    IN  ({1, lw}
         \cup {Upto(w, k) + d : k \in 1..Len(w), d \in {0, 1}}
         \cup {Upto(s, k) - off + d : k \in 1..Len(s), d \in {0, 1}})
        \cap 1..lw

(* C9: the window is the last min(WindowSize, length) elements of the      *)
(* sorted sequence, in the same order.                                     *)
C9_WindowIsTail ==
    \A c \in Started :
       Full(c) =>
          LET s == checks[c].sorted
              off == RunLen(s) - RunLen(Window)
          IN  /\ RunLen(Window) = Min(WindowSize, RunLen(s))
              /\ \A i \in Ends(Window, s) : ElemAt(Window, i) = ElemAt(s, off + i)

C9_Witness ==
    \E c \in Started :
       /\ Full(c)
       /\ RunLen(checks[c].sorted) > WindowSize
       /\ RunLen(Window) = WindowSize
       /\ Len(Window) >= 2

DurationSeconds(range) ==
    CASE range = "1h" -> 3600
      [] range = "6h" -> 21600
      [] range = "24h" -> 86400
      [] range = "3d" -> 259200
      [] range = "7d" -> 604800
      [] range = "14d" -> 1209600
      [] range = "30d" -> 2592000

Within(reading, range, clock) ==
    /\ IsNum(Time(reading))
    /\ Time(reading).v >= clock - DurationSeconds(range) * TicksPerSec

Selected(readings, range, clock) ==
    IF range = "all" THEN readings
    ELSE SelectSeq(readings, LAMBDA run : Within(run.r, range, clock))

(* C10: what a render draws is the window itself under the selector 'all', *)
(* and otherwise, in the window's order, exactly the Readings whose        *)
(* timestamp is not before now minus the selector's duration.              *)
C10_FilterByRange ==
    [][Render => chart' = Selected(Window, timeRange, now)]_vars

C10_Witness ==
    /\ timeRange # "all"
    /\ chart # <<>>
    /\ chart # Window
    /\ chart = Selected(Window, timeRange, now)
    /\ \E i \in 1..Len(chart) :
          Time(chart[i].r).v = now - DurationSeconds(timeRange) * TicksPerSec

(* One status check from one step to the next: its commands follow one     *)
(* another in the order script, cron, log, read, each behind the success   *)
(* of the one before, and a check that has ended issues nothing more.      *)
ProbeStep(k, k2) ==
    IF k.pc \in {"done", "lost"} THEN k2 = k
    ELSE k2.pc # k.pc =>
            \/ k.pc = "script" /\ k2.pc = "cron" /\ scriptFile /\ k2.failed = "none"
            \/ k.pc = "cron" /\ k2.pc = "log" /\ cronEntries > 0 /\ k2.failed = "none"
            \/ k.pc = "log" /\ k2.pc = "read" /\ logFile.exists /\ k2.failed = "none"
            \/ k2.pc \in {"done", "lost"} /\ k2.failed \in {k.pc, "none"}

(* C11: within one status check the probes are issued in the order script, *)
(* cron, log file, log read, each only after the one before succeeded; a   *)
(* check whose probe failed issues no further probe and no read.           *)
C11_ProbesInOrder ==
    [][\A c \in 1..Len(checks') :
          IF c \in Started THEN ProbeStep(checks[c], checks'[c])
          ELSE checks'[c].pc = "script" /\ checks'[c].failed = "none"]_vars

C11_Witness ==
    \E c \in Started :
       /\ checks[c].pc = "done"
       /\ checks[c].failed = "cron"
       /\ scriptFile

(* C12: a timer tick at which the displayed record has isInstalled = true  *)
(* starts a status check.                                                  *)
C12_TickStartsCheck ==
    [][(TimerTick /\ loggingStatus.isInstalled) => Len(checks') = Len(checks) + 1]_vars

(* What the logging card shows of a status record. *)
Display(st) ==
    [isInstalled |-> st.isInstalled, isRunning |-> st.isRunning,
     logExists |-> st.logExists, lastReading |-> st.lastReading,
     recentReadings |-> st.recentReadings]

(* C13: after a failed install the logging card differs from the plain     *)
(* not-installed card that was shown before the install was attempted.     *)
C13_InstallFailureShown ==
    [][InstallFail =>
          <<loading', Display(loggingStatus')>> #
          <<FALSE, Display(InitialLoggingStatus)>>]_vars

(* The record the ended check c computed. *)
RecordOf(c) ==
    LET k == checks[c]
        w == SliceLast(k.sorted, WindowSize)
    IN  IF k.failed \in {"script", "cron"}
        THEN [isInstalled |-> FALSE, isRunning |-> FALSE, logExists |-> FALSE,
              lastReading |-> Undefined, recentReadings |-> <<>>, by |-> c]
        ELSE IF k.failed = "log"
        THEN [isInstalled |-> TRUE, isRunning |-> TRUE, logExists |-> FALSE,
              lastReading |-> Undefined, recentReadings |-> <<>>, by |-> c]
        ELSE [isInstalled |-> TRUE, isRunning |-> TRUE, logExists |-> TRUE,
              lastReading |-> LastElem(w), recentReadings |-> w, by |-> c]

(* C14: the displayed record is the initial record or, field for field,    *)
(* the record of the one status check that published it.                   *)
C14_RecordOfOneCheck ==
    IF loggingStatus.by = 0
    THEN loggingStatus =
            [isInstalled |-> FALSE, isRunning |-> FALSE, logExists |-> FALSE,
             lastReading |-> Undefined, recentReadings |-> <<>>, by |-> 0]
    ELSE /\ loggingStatus.by \in Started
         /\ checks[loggingStatus.by].pc = "done"
         /\ loggingStatus = RecordOf(loggingStatus.by)

C14_Witness ==
    /\ loggingStatus.by = 2
    /\ checks[1].pc = "done"
    /\ checks[1].failed = "none"
    /\ checks[2].failed = "log"

(* C15: a step that changes the selected range changes neither the status  *)
(* record nor loading and starts no status check, fetch or install; and    *)
(* the filter, applied under the same selector and clock to what a render  *)
(* has drawn, returns it unchanged.                                        *)
C15_SelectorOnlyFilters ==
    [][/\ timeRange' # timeRange =>
             /\ loggingStatus' = loggingStatus
             /\ loading' = loading
             /\ checks' = checks
             /\ fetches' = fetches
             /\ install' = install
       /\ Render => FilterReadingsByTimeRange(chart', timeRange, now) = chart']_vars

C15_Witness ==
    /\ timeRange = "6h"
    /\ chart = FilterReadingsByTimeRange(Window, "6h", now)
    /\ chart \notin {<<>>, Window}

(* C16: a status check that reads the text the check on display has read   *)
(* publishes the record on display again, whatever was displayed when that *)
(* check published.                                                        *)
C16_RecordFromTextOnly ==
    [][\A d \in Started :
          (checks[d].pc = "read" /\ checks'[d].pc = "done") =>
             \A c \in Started \ {d} :
                (Full(c) /\ checks[c].data = checks'[d].data) =>
                   Display(loggingStatus') = Display(loggingStatus)]_vars

C16_Witness ==
    /\ Len(checks) = 2
    /\ Full(2)
    /\ checks[1].pc = "done"
    /\ checks[1].failed = "none"
    /\ checks[1].data = checks[2].data
    /\ Window # <<>>

(* C17: the displayed record has isRunning equal to isInstalled, and the   *)
(* commands of a status check are the three file probes and the read.      *)
C17_RunningIsInstalled ==
    /\ loggingStatus.isRunning = loggingStatus.isInstalled
    /\ \A c \in Started :
          checks[c].pc \in {"script", "cron", "log", "read", "done", "lost"}

C17_Witness ==
    \E c \in Started :
       /\ Full(c)
       /\ Window = <<>>
       /\ loggingStatus.isInstalled
       /\ loggingStatus.isRunning

(* The timer of the ADS-B monitor has started fetch f. *)
ByTimer(f) == adsbFetches[f].by = "tick"

(* fetchADSBStats has just run: one more call, both of its processes out. *)
FetchStarted ==
    /\ Len(adsbFetches') = Len(adsbFetches) + 1
    /\ SubSeq(adsbFetches', 1, Len(adsbFetches)) = adsbFetches
    /\ adsbFetches'[Len(adsbFetches')].stats = "pending"
    /\ adsbFetches'[Len(adsbFetches')].status = "pending"

(* C18: in the ADS-B monitor the interval is set exactly from mount until  *)
(* unmount, every tick of it starts one fetch of the statistics and of the *)
(* service status, and once the monitor is unmounted no fetch is started,  *)
(* by the timer or otherwise.                                              *)
C18_TimerFetchesWhileMounted ==
    [][/\ adsbInterval' = (adsbPhase' = "mounted")
       /\ AdsbTick => adsbPhase = "mounted" /\ FetchStarted
       /\ Len(adsbFetches') # Len(adsbFetches) =>
              /\ FetchStarted
              /\ adsbPhase' = "mounted"
              /\ adsbFetches'[Len(adsbFetches')].by = "tick" =>
                     adsbPhase = "mounted" /\ adsbInterval]_vars

C18_Witness ==
    /\ adsbPhase = "unmounted"
    /\ ~adsbInterval
    /\ \E f \in 1..Len(adsbFetches) : ByTimer(f)

Tier(status) ==
    CASE status = "Normal" -> 0
      [] status = "Warm" -> 1
      [] status = "Hot" -> 2
      [] status = "Critical" -> 3

TierColor(status) ==
    CASE status = "Normal" -> "#28a745"
      [] status = "Warm" -> "#ffc107"
      [] status = "Hot" -> "#fd7e14"
      [] status = "Critical" -> "#dc3545"

(* lo <= temp < hi, in degrees, of a value held in thousandths *)
Between(x, lo, hi) == IsNum(x) /\ lo * 1000 <= x.v /\ x.v < hi * 1000

(* C19: every render of the card classifies the temperature by the fixed   *)
(* thresholds (>= 80 Critical, 70 to 80 Hot, 60 to 70 Warm, below 60       *)
(* Normal), its colour is the colour of that tier (red, orange, yellow,    *)
(* green), and a temperature no lower than the one rendered before is      *)
(* never given a lower tier.                                                *)
C19_SeverityTiers ==
    [][RenderCard =>
         LET t == tempCard'.value
             st == tempCard'.status
         IN  /\ st \in {"Normal", "Warm", "Hot", "Critical"}
             /\ IsNum(t) /\ t.v >= 80 * 1000 => st = "Critical"
             /\ Between(t, 70, 80) => st = "Hot"
             /\ Between(t, 60, 70) => st = "Warm"
             /\ IsNum(t) /\ t.v < 60 * 1000 => st = "Normal"
             /\ tempCard'.color = TierColor(st)
             /\ st = GetTempStatus(t)
             /\ IsNum(t) /\ IsNum(tempCard.value) /\ t.v >= tempCard.value.v =>
                    Tier(st) >= Tier(tempCard.status)]_vars

C19_Witness ==
    /\ tempCard.value = Num(70 * 1000)
    /\ tempCard.status = "Hot"
    /\ tempCard.color = "#fd7e14"
    /\ currentTemp.by > 0

(* The lines of the `sensors` output, read without the scan. *)
SensorLines == Split(sensorsOut, "\n")

IsTmp102Line(i) == Includes(ToLowerCase(SensorLines[i]), TMP102)

(* Line i lies in a TMP102 section: a line with 'tmp102' precedes it and   *)
(* no blank line lies between the last such line and line i.               *)
InTmp102Section(i) ==
    \E j \in 1..(i - 1) :
       /\ IsTmp102Line(j)
       /\ \A k \in (j + 1)..(i - 1) : IsTmp102Line(k) \/ ~IsBlank(SensorLines[k])

(* Line i holds a `temp1:` value that the scan reads. *)
ValueLine(i) ==
    /\ ~IsTmp102Line(i)
    /\ ~IsBlank(SensorLines[i])
    /\ ~(Includes(ToLowerCase(SensorLines[i]), ADAPTER) /\ InTmp102Section(i))
    /\ Includes(SensorLines[i], TEMP1)
    /\ TempMatch(SensorLines[i]) # Null

ValueOf(i) == ParseFloat(TempMatch(SensorLines[i]).v)

CpuLines == {i \in 1..Len(SensorLines) : ValueLine(i) /\ ~InTmp102Section(i)}
Tmp102Lines == {i \in 1..Len(SensorLines) : ValueLine(i) /\ InTmp102Section(i)}

Scanned(f) == f \in 1..Len(fetches) /\ fetches[f].pc \in {"thermal", "done"}

(* C20: after the scan of the `sensors` output the TMP102 reading is the   *)
(* last `temp1:` value inside a TMP102 section and the CPU sensors reading *)
(* is the first `temp1:` value outside one: no later value replaces it.    *)
C20_FirstCpuValueKept ==
    \A f \in 1..Len(fetches) :
       Scanned(f) =>
          /\ fetches[f].tmp102Temp =
                IF Tmp102Lines = {} THEN Null
                ELSE ValueOf(CHOOSE i \in Tmp102Lines : \A j \in Tmp102Lines : j <= i)
          /\ fetches[f].sensorsTemp =
                IF CpuLines = {} THEN Null
                ELSE ValueOf(CHOOSE i \in CpuLines : \A j \in CpuLines : i <= j)

(* C21: the status record on display is consistent in every state: a log   *)
(* that exists implies an installed logger, readings imply a log that      *)
(* exists, and lastReading is present exactly when there are readings, in  *)
(* which case it is the last of them.                                      *)
C21_RecordConsistent ==
    LET st == loggingStatus
    IN  /\ st.logExists => st.isInstalled
        /\ st.recentReadings # <<>> => st.logExists
        /\ (st.lastReading # Undefined) <=> (st.recentReadings # <<>>)
        /\ st.recentReadings # <<>> => st.lastReading = LastElem(st.recentReadings)

C21_Witness ==
    /\ \E c \in Started : Full(c)
    /\ RunLen(Window) >= 2
    /\ loggingStatus.lastReading = LastElem(Window)
    /\ loggingStatus.lastReading # ElemAt(Window, 1)

(* A status check whose command or callback is still to come. *)
Unfinished == {c \in Started : checks[c].pc # "done"}

(* The status checks and installs that have started and not finished. *)
InFlight == Cardinality(Unfinished) + (IF install = "idle" THEN 0 ELSE 1)

(* C22: loading is true while a status check or an install is unfinished,  *)
(* at most one of them is unfinished at a time, and a click on Refresh or  *)
(* on Install happens only while loading is false and none is unfinished.  *)
C22_OneOperationAtATime ==
    [][/\ InFlight' > 0 => loading'
       /\ InFlight' <= 1
       /\ (RefreshClick \/ InstallClick) => ~loading /\ InFlight = 0]_vars

C22_Witness ==
    /\ Len(checks) = 2
    /\ checks[1].pc = "done"
    /\ checks[2].pc \in {"cron", "log", "read"}
    /\ install = "idle"
    /\ loading

(* The step installLogging awaits after the one named. *)
StepAfter(step) ==
    CASE step = "mkdir" -> "write"
      [] step = "write" -> "mv"
      [] step = "mv" -> "chmod"
      [] step = "chmod" -> "cron"
      [] step = "cron" -> "log"
      [] step = "log" -> "chmodlog"
      [] step = "chmodlog" -> "run"
      [] step = "run" -> "idle"

(* The install goes from one awaited step to the next: no check is started *)
(* and each file is touched by its own step only.                          *)
InstallAdvances ==
    /\ install \notin {"idle", "run"}
    /\ install' = StepAfter(install)
    /\ checks' = checks
    /\ loading'
    /\ scriptFile' # scriptFile => install = "mv"
    /\ cronEntries' # cronEntries => install = "cron"
    /\ logFile' # logFile => install = "log"

(* The last step has run: the status check is started. *)
InstallCompletes ==
    /\ install = "run"
    /\ install' = "idle"
    /\ Len(checks') = Len(checks) + 1
    /\ loading'

(* A step has failed: nothing else happens but loading is reset. *)
InstallStops ==
    /\ install # "idle"
    /\ install' = "idle"
    /\ checks' = checks
    /\ ~loading'
    /\ host' = host

(* C23: installLogging runs its steps in order (mkdir, write, mv, chmod,   *)
(* cron entry, log header, chmod of the log, one run of the logger, then   *)
(* the status check); when a step fails no later step runs, no status      *)
(* check is started, loading becomes false; and the record on display is   *)
(* the same throughout.                                                    *)
C23_InstallInOrder ==
    [][/\ install' # install =>
            /\ \/ install = "idle" /\ install' = "mkdir" /\ ~loading /\ loading'
                  /\ host' = host /\ checks' = checks
               \/ InstallAdvances
               \/ InstallCompletes
               \/ InstallStops
            /\ loggingStatus' = loggingStatus
       /\ install = "idle" /\ install' = "idle" => host' = host]_vars

C23_Witness ==
    /\ install = "idle"
    /\ cronEntries = 2
    /\ logFile = LogFileOf(SmallLog)
    /\ Len(checks) = 1
    /\ ~loading
    /\ loggingStatus = NotInstalledRecord(1)

(* C24: /etc/crontab never holds more than one temp_logger.sh entry. *)
C24_AtMostOneCronEntry == cronEntries <= 1

(* C25: a step of an install leaves every reading line of the log in the   *)
(* log, as often as it was there.                                          *)
C25_InstallKeepsReadings ==
    [][install # "idle" =>
          \A i \in 1..Len(logFile.data) :
             CountsAsReading(logFile.data[i].line) =>
                LinesEqual(logFile'.data, logFile.data[i].line)
                   >= LinesEqual(logFile.data, logFile.data[i].line)]_vars

(* Fetch f takes a step from waiting for one command to pc. *)
FetchMoves(f, pc) ==
    /\ f \in 1..Len(fetches)
    /\ fetches[f].pc # pc
    /\ fetches'[f].pc = pc

(* C26: the current temperature on display changes only when the thermal   *)
(* zone read of a fetch succeeds, that read is issued only by the callback *)
(* of a successful `sensors` command, and a fetch one of whose commands    *)
(* fails leaves the display as it was.                                     *)
C26_FetchPublishesOnSuccess ==
    [][/\ currentTemp' # currentTemp =>
            \E f \in 1..Len(fetches) :
               /\ fetches[f].pc = "thermal"
               /\ FetchMoves(f, "done")
               /\ currentTemp' = [sensors |-> fetches[f].sensorsTemp,
                                  thermal |-> ParseThermal(thermalOut),
                                  tmp102 |-> fetches[f].tmp102Temp,
                                  by |-> f]
       /\ \A f \in 1..Len(fetches) :
            /\ FetchMoves(f, "thermal") =>
                  /\ fetches[f].pc = "sensors"
                  /\ fetches'[f].sensorsTemp = ParseSensors(sensorsOut).sensorsTemp
                  /\ fetches'[f].tmp102Temp = ParseSensors(sensorsOut).tmp102Temp
                  /\ currentTemp' = currentTemp
            /\ FetchMoves(f, "done") => fetches[f].pc = "thermal"
            /\ FetchMoves(f, "lost") => currentTemp' = currentTemp
       /\ \A f \in (Len(fetches) + 1)..Len(fetches') :
            fetches'[f].pc = "sensors" /\ currentTemp' = currentTemp]_vars

C26_Witness ==
    /\ Len(fetches) = 2
    /\ fetches[1].pc = "lost"
    /\ fetches[1].sensorsTemp # Null
    /\ fetches[2].pc = "lost"
    /\ fetches[2].sensorsTemp = Null
    /\ currentTemp = InitialCurrentTemp

(* The selectors, from the shortest range to the longest. *)
Selectors == <<"1h", "6h", "24h", "3d", "7d", "14d", "30d", "all">>

(* What the filter returns for the window and the clock of this state. *)
Result(range) == FilterReadingsByTimeRange(Window, range, now)

(* a is made of the last elements of b. *)
IsSuffix(a, b) ==
    /\ RunLen(a) <= RunLen(b)
    /\ a = DropFirst(b, RunLen(b) - RunLen(a))

(* C27: for a window in ascending order of valid timestamps the filter's   *)
(* result is, for every selector, a contiguous suffix of the window, and   *)
(* the result of each selector is a suffix of the result of the next       *)
(* longer one, from 1h up to all.                                          *)
C27_ResultsNested ==
    (AllDated(Window) /\ Ascending(Window)) =>
        /\ \A i \in 1..Len(Selectors) : IsSuffix(Result(Selectors[i]), Window)
        /\ \A i \in 1..(Len(Selectors) - 1) :
              IsSuffix(Result(Selectors[i]), Result(Selectors[i + 1]))

C27_Witness ==
    /\ AllDated(Window)
    /\ Ascending(Window)
    /\ RunLen(Window) >= 3
    /\ Result("1h") = <<>>
    /\ Result("6h") # <<>>
    /\ Result("6h") # Result("24h")
    /\ Result("24h") = Window

(* The Readings of rs whose timestamp is no valid date. *)
Undated(rs) == SelectSeq(rs, LAMBDA run : ~IsNum(Time(run.r)))

(* The lines of a text that yield a Reading and whose first field is no    *)
(* valid date.                                                             *)
UndatedLines(data) ==
    SelectSeq(data, LAMBDA run : /\ CountsAsReading(run.line)
                                 /\ ~IsNum(GetTime(Split(run.line, ",")[1])))

=============================================================================
